---------------------------- MODULE Spec2Model ----------------------------
(***************************************************************************)
(* Model of the e-mail validator (src/app.py, the HTTP variant with the    *)
(* heuristic scorer, and src/validator.py, the command-line variant).      *)
(*                                                                         *)
(* A Python value is a tagged tuple: <<"str", s>> with s the sequence of   *)
(* the string's characters (each a one-character string), <<"None">>, or   *)
(* <<"int", n>>.  A Python dict is a record with exactly the keys the      *)
(* code puts in it, so that an absent key is absent from DOMAIN.           *)
(***************************************************************************)
EXTENDS Integers, Sequences, FiniteSets, TLC

(***************************************************************************)
(* State                                                                   *)
(***************************************************************************)
VARIABLES
    entry,      \* the function the caller invoked
    email,      \* its argument
    flag,       \* check_deliverability of validate_email_with_options
    imported,   \* whether the email_validator package can be imported
    verdict,    \* what the delegate does on the argument
    pc,         \* where the call stands
    exception,  \* the exception in flight, "none" when there is none
    calls,      \* the calls made to the delegate, in order
    steps,      \* what ran, in order: "delegate", "simple", "score"
    outcome,    \* "pending", "returned" or "raised"
    result,     \* the returned value
    emails,     \* the list of addresses of a batch call
    batch_size_arg,  \* the batch_size the caller passed
    batch_size, \* the local batch_size of validate_email_batches
    index,      \* the loop variable i of validate_email_batches (0-based)
    all_results, \* the list validate_email_batches accumulates
    verdicts,   \* what the delegate does on each kind of address of the list
    cleaned_emails, \* the local cleaned_emails of validate_batch_endpoint
    single_results  \* what validate_single_email did on each cleaned address

vars == << entry, email, flag, imported, verdict, pc, exception, calls, steps,
           outcome, result, emails, batch_size_arg, batch_size, index,
           all_results, verdicts,
                    cleaned_emails, single_results >>

batchVars == << emails, batch_size_arg, batch_size, index, all_results,
                verdicts,
                    cleaned_emails, single_results >>

(***************************************************************************)
(* Characters and the str methods the code uses                            *)
(***************************************************************************)
Lowers == <<"a","b","c","d","e","f","g","h","i","j","k","l","m",
            "n","o","p","q","r","s","t","u","v","w","x","y","z">>
Uppers == <<"A","B","C","D","E","F","G","H","I","J","K","L","M",
            "N","O","P","Q","R","S","T","U","V","W","X","Y","Z">>

LowerSet == {Lowers[i] : i \in DOMAIN Lowers}
UpperSet == {Uppers[i] : i \in DOMAIN Uppers}
DigitSet == {"0","1","2","3","4","5","6","7","8","9"}
LetterSet == LowerSet \cup UpperSet
Whitespace == {" ", "\t", "\n", "\r"}

\* str.lower() on one character
ToLowerChar(c) ==
    IF c \in UpperSet THEN Lowers[CHOOSE i \in DOMAIN Uppers : Uppers[i] = c] ELSE c

\* str.lower()
Lower(s) == [i \in 1..Len(s) |-> ToLowerChar(s[i])]

\* s[lo..hi] (1-based, inclusive) consists of characters of S; true of an empty range
AllIn(s, lo, hi, S) == \A i \in lo..hi : s[i] \in S

\* the literal lit occurs in s at position i
HasAt(s, i, lit) ==
    /\ i >= 1
    /\ i + Len(lit) - 1 <= Len(s)
    /\ \A k \in 1..Len(lit) : s[i + k - 1] = lit[k]

\* s ends with lit
EndsWith(s, lit) == HasAt(s, Len(s) - Len(lit) + 1, lit)

\* s.startswith(lit)
StartsWith(s, lit) == HasAt(s, 1, lit)

\* lit in s
Contains(s, lit) == \E i \in 1..Len(s) : HasAt(s, i, lit)

AtSign == "@"
Dot == "."

\* '@' in s
HasAtSign(s) == \E i \in 1..Len(s) : s[i] = AtSign

\* positions of '@' in s
AtPositions(s) == {i \in 1..Len(s) : s[i] = AtSign}

\* s.split('@')[0]
SplitFirst(s) ==
    IF HasAtSign(s)
    THEN LET k == CHOOSE i \in AtPositions(s) : \A j \in AtPositions(s) : i <= j
         IN  SubSeq(s, 1, k - 1)
    ELSE s

\* s.split('@')[1], defined when '@' in s: the text between the first and the
\* second '@' (or the end of the string)
SplitSecond(s) ==
    LET k == CHOOSE i \in AtPositions(s) : \A j \in AtPositions(s) : i <= j
        later == {j \in AtPositions(s) : j > k}
        e == IF later = {} THEN Len(s) + 1
             ELSE CHOOSE j \in later : \A j2 \in later : j <= j2
    IN  SubSeq(s, k + 1, e - 1)

\* s.strip()
Strip(s) ==
    LET keep == {i \in 1..Len(s) : s[i] \notin Whitespace}
    IN  IF keep = {} THEN <<>>
        ELSE LET lo == CHOOSE i \in keep : \A j \in keep : i <= j
                 hi == CHOOSE i \in keep : \A j \in keep : i >= j
             IN  SubSeq(s, lo, hi)

(***************************************************************************)
(* Python values                                                           *)
(***************************************************************************)
Str(s) == <<"str", s>>
PyNone == <<"None">>
PyInt(n) == <<"int", n>>

IsStr(v) == v[1] = "str"
Chars(v) == v[2]

\* Python truthiness of a value: not v is ~Truthy(v)
Truthy(v) ==
    CASE v[1] = "str" -> Len(v[2]) > 0
      [] v[1] = "int" -> v[2] # 0
      [] OTHER -> FALSE

(***************************************************************************)
(* String literals of the rule tables, as character sequences              *)
(***************************************************************************)
\* the words of the rule tables, by name
W ==
    [ user |-> <<"u","s","e","r">>,
      person |-> <<"p","e","r","s","o","n">>,
      email |-> <<"e","m","a","i","l">>,
      test |-> <<"t","e","s","t">>,
      sample |-> <<"s","a","m","p","l","e">>,
      example |-> <<"e","x","a","m","p","l","e">>,
      demo |-> <<"d","e","m","o">>,
      contact |-> <<"c","o","n","t","a","c","t">>,
      placeholder |-> <<"p","l","a","c","e","h","o","l","d","e","r">>,
      company |-> <<"c","o","m","p","a","n","y">>,
      business |-> <<"b","u","s","i","n","e","s","s">>,
      corporation |-> <<"c","o","r","p","o","r","a","t","i","o","n">>,
      enterprise |-> <<"e","n","t","e","r","p","r","i","s","e">>,
      mail |-> <<"m","a","i","l">>,
      info |-> <<"i","n","f","o">>,
      corp |-> <<"c","o","r","p">>,
      inc |-> <<"i","n","c">>,
      john |-> <<"j","o","h","n">>,
      doe |-> <<"d","o","e">>,
      jane |-> <<"j","a","n","e">>,
      smith |-> <<"s","m","i","t","h">>,
      alex |-> <<"a","l","e","x">>,
      johnson |-> <<"j","o","h","n","s","o","n">>,
      sarah |-> <<"s","a","r","a","h">>,
      wilson |-> <<"w","i","l","s","o","n">>,
      michael |-> <<"m","i","c","h","a","e","l">>,
      brown |-> <<"b","r","o","w","n">>,
      emily |-> <<"e","m","i","l","y">>,
      davis |-> <<"d","a","v","i","s">>,
      david |-> <<"d","a","v","i","d">>,
      miller |-> <<"m","i","l","l","e","r">>,
      lisa |-> <<"l","i","s","a">>,
      garcia |-> <<"g","a","r","c","i","a">>,
      chris |-> <<"c","h","r","i","s">>,
      martinez |-> <<"m","a","r","t","i","n","e","z">>,
      amanda |-> <<"a","m","a","n","d","a">>,
      taylor |-> <<"t","a","y","l","o","r">>,
      robert |-> <<"r","o","b","e","r","t">>,
      anderson |-> <<"a","n","d","e","r","s","o","n">>,
      jennifer |-> <<"j","e","n","n","i","f","e","r">>,
      thomas |-> <<"t","h","o","m","a","s">> ]
DotCom == <<".","c","o","m">>
DotDot == <<".",".">>

\* FAKE_DOMAINS
FAKE_DOMAINS ==
    { <<"e","x","a","m","p","l","e",".","c","o","m">>,
      <<"t","e","s","t",".","c","o","m">>,
      <<"s","a","m","p","l","e",".","c","o","m">>,
      <<"d","e","m","o",".","c","o","m">>,
      <<"p","l","a","c","e","h","o","l","d","e","r",".","c","o","m">>,
      <<"f","a","k","e",".","c","o","m">>,
      <<"d","u","m","m","y",".","c","o","m">>,
      <<"t","e","m","p",".","c","o","m">>,
      <<"t","e","s","t","i","n","g",".","c","o","m">>,
      <<"m","o","c","k","u","p",".","c","o","m">>,
      <<"f","a","k","e","m","a","i","l",".","c","o","m">>,
      <<"t","e","m","p","m","a","i","l",".","c","o","m">>,
      <<"e","x","a","m","p","l","e",".","o","r","g">>,
      <<"e","x","a","m","p","l","e",".","n","e","t">> }

(***************************************************************************)
(* AI_SUSPICIOUS_PATTERNS: one predicate per regular expression.  A rule   *)
(* matches when some placement of the expression in the text exists        *)
(* (re.search); '$' is the end of the text (the inputs hold no newline).   *)
(***************************************************************************)
SequentialWords ==
    << W.user, W.person, W.email, W.test, W.sample, W.example, W.demo, W.contact >>

\* r'<word>\d+@' for the i-th word of 'sequential_usernames'
SequentialMatches(i, s) ==
    LET w == SequentialWords[i]
    IN  \E a \in AtPositions(s) : \E p \in 1..(a - Len(w) - 1) :
          /\ HasAt(s, p, w)
          /\ AllIn(s, p + Len(w), a - 1, DigitSet)

\* '@[a-z]{lo,hi}\.com$' placed with the '@' at position a
ComDomainAt(s, a, lo, hi) ==
    /\ s[a] = AtSign
    /\ EndsWith(s, DotCom)
    /\ (Len(s) - Len(DotCom)) - a \in lo..hi
    /\ AllIn(s, a + 1, Len(s) - Len(DotCom), LowerSet)

\* r'[a-z]+\d{1,3}@[a-z]+\.com$'
Templated1(s) ==
    \E a \in AtPositions(s) :
        /\ ComDomainAt(s, a, 1, Len(s))
        /\ \E j \in (a - 3)..(a - 1) :
              /\ j > 1
              /\ AllIn(s, j, a - 1, DigitSet)
              /\ \E i \in 1..(j - 1) : AllIn(s, i, j - 1, LowerSet)

\* r'[a-z]+\.[a-z]+\d+@[a-z]+\.com$'
Templated2(s) ==
    \E a \in AtPositions(s) :
        /\ ComDomainAt(s, a, 1, Len(s))
        /\ \E j \in 1..(a - 1) :
              /\ AllIn(s, j, a - 1, DigitSet)
              /\ \E d \in 2..(j - 2) :
                    /\ s[d] = Dot
                    /\ AllIn(s, d + 1, j - 1, LowerSet)
                    /\ \E i \in 1..(d - 1) : AllIn(s, i, d - 1, LowerSet)

\* r'[a-z]{4,8}\d{2,4}@[a-z]{5,10}\.com$'
Templated3(s) ==
    \E a \in AtPositions(s) :
        /\ ComDomainAt(s, a, 5, 10)
        /\ \E j \in (a - 4)..(a - 2) :
              /\ j > 1
              /\ AllIn(s, j, a - 1, DigitSet)
              /\ \E i \in (j - 8)..(j - 4) :
                    i >= 1 /\ AllIn(s, i, j - 1, LowerSet)

NumTemplated == 3

TemplatedMatches(i, s) ==
    CASE i = 1 -> Templated1(s)
      [] i = 2 -> Templated2(s)
      [] i = 3 -> Templated3(s)

CommonNames ==
    << <<W.john, W.doe>>, <<W.jane, W.smith>>, <<W.alex, W.johnson>>,
       <<W.sarah, W.wilson>>, <<W.michael, W.brown>>, <<W.emily, W.davis>>,
       <<W.david, W.miller>>, <<W.lisa, W.garcia>>, <<W.chris, W.martinez>>,
       <<W.amanda, W.taylor>>, <<W.robert, W.anderson>>, <<W.jennifer, W.thomas>> >>

\* r'<first>\.?<last>' for the i-th pair of 'ai_common_names'
CommonNameMatches(i, s) ==
    LET first == CommonNames[i][1]
        last == CommonNames[i][2]
    IN  \/ Contains(s, first \o last)
        \/ Contains(s, first \o <<Dot>> \o last)

\* r'@(w1|w2|...)\.com$'
WordDomain(s, words) ==
    \E w \in words : EndsWith(s, <<AtSign>> \o w \o DotCom)

\* r'@[a-z]{lo,hi}<suffix>\.com$'
SuffixDomain(s, lo, hi, suffix) ==
    \E a \in AtPositions(s) :
        LET tail == suffix \o DotCom
            n == (Len(s) - Len(tail)) - a
        IN  /\ EndsWith(s, tail)
            /\ n \in lo..hi
            /\ AllIn(s, a + 1, a + n, LowerSet)

NumSuspiciousDomains == 5

SuspiciousDomainMatches(i, s) ==
    CASE i = 1 -> WordDomain(s, {W.example, W.test, W.sample, W.demo, W.placeholder})
      [] i = 2 -> WordDomain(s, {W.company, W.business, W.corporation, W.enterprise})
      [] i = 3 -> WordDomain(s, {W.email, W.mail, W.contact, W.info})
      [] i = 4 -> SuffixDomain(s, 5, 8, W.corp)
      [] i = 5 -> SuffixDomain(s, 3, 6, W.inc)

\* re.match(r'^[a-z]+\.[a-z]+@[a-z]+\.com$', s)
OverlyPerfect(s) ==
    \E a \in AtPositions(s) :
        /\ ComDomainAt(s, a, 1, Len(s))
        /\ \E d \in 2..(a - 2) :
              /\ s[d] = Dot
              /\ AllIn(s, 1, d - 1, LowerSet)
              /\ AllIn(s, d + 1, a - 1, LowerSet)

(***************************************************************************)
(* detect_ai_patterns                                                      *)
(***************************************************************************)
SequentialPoints == 30
TemplatedPoints == 20
CommonNamePoints == 15
SuspiciousDomainPoints == 25
FakeDomainPoints == 40
OverlyPerfectPoints == 10

HighThreshold == 40
MediumThreshold == 20
LowThreshold == 10

\* the indices 1..n, in order, of the rules that match
Fired(n, Matches(_)) == SelectSeq([i \in 1..n |-> i], Matches)

\* the entries one family appends to detected_patterns: one per matching rule
Entries(label, fired) == [k \in 1..Len(fired) |-> <<label, fired[k]>>]

LocalPartOf(lower) == IF HasAtSign(lower) THEN SplitFirst(lower) ELSE <<>>
DomainPartOf(lower) == IF HasAtSign(lower) THEN SplitSecond(lower) ELSE <<>>

\* the rules that fire on the address, family by family: for the four rule
\* tables the indices of the matching rules in table order, for the two single
\* checks whether the check matched
FiredRules(address) ==
    LET email_lower == Lower(address)
        local_part == LocalPartOf(email_lower)
        domain_part == DomainPartOf(email_lower)
    IN  [ sequential |->
              Fired(Len(SequentialWords), LAMBDA i : SequentialMatches(i, email_lower)),
          templated |->
              Fired(NumTemplated, LAMBDA i : TemplatedMatches(i, email_lower)),
          common_name |->
              Fired(Len(CommonNames), LAMBDA i : CommonNameMatches(i, local_part)),
          suspicious_domain |->
              Fired(NumSuspiciousDomains,
                    LAMBDA i : SuspiciousDomainMatches(i, email_lower)),
          fake_domain |-> domain_part \in FAKE_DOMAINS,
          overly_perfect |-> OverlyPerfect(email_lower),
          domain_part |-> domain_part ]

\* a plausible slip: a family's points added once however many of its rules match
SuspicionScore_OncePerFamily(f) ==
      (IF Len(f.sequential) > 0 THEN SequentialPoints ELSE 0)
    + (IF Len(f.templated) > 0 THEN TemplatedPoints ELSE 0)
    + (IF Len(f.common_name) > 0 THEN CommonNamePoints ELSE 0)
    + (IF Len(f.suspicious_domain) > 0 THEN SuspiciousDomainPoints ELSE 0)
    + (IF f.fake_domain THEN FakeDomainPoints ELSE 0)
    + (IF f.overly_perfect THEN OverlyPerfectPoints ELSE 0)

\* suspicion_score after the six checks: every matching rule adds its family's
\* points
SuspicionScore(f) ==
      SequentialPoints * Len(f.sequential)
    + TemplatedPoints * Len(f.templated)
    + CommonNamePoints * Len(f.common_name)
    + SuspiciousDomainPoints * Len(f.suspicious_domain)
    + (IF f.fake_domain THEN FakeDomainPoints ELSE 0)
    + (IF f.overly_perfect THEN OverlyPerfectPoints ELSE 0)

\* a plausible slip: the suspicious-domain check made before the name check
DetectedPatterns_DomainsBeforeNames(f) ==
       Entries("Sequential pattern", f.sequential)
    \o Entries("Templated pattern", f.templated)
    \o Entries("Suspicious domain", f.suspicious_domain)
    \o Entries("AI common name", f.common_name)
    \o (IF f.fake_domain THEN << <<"Known fake domain", f.domain_part>> >> ELSE <<>>)
    \o (IF f.overly_perfect THEN << <<"Overly perfect pattern">> >> ELSE <<>>)

\* detected_patterns, in the order the checks append to it
DetectedPatterns(f) ==
       Entries("Sequential pattern", f.sequential)
    \o Entries("Templated pattern", f.templated)
    \o Entries("AI common name", f.common_name)
    \o Entries("Suspicious domain", f.suspicious_domain)
    \o (IF f.fake_domain THEN << <<"Known fake domain", f.domain_part>> >> ELSE <<>>)
    \o (IF f.overly_perfect THEN << <<"Overly perfect pattern">> >> ELSE <<>>)

\* a plausible slip: strict comparisons
Likelihood_Strict(score) ==
    IF score > HighThreshold THEN <<"high", TRUE>>
    ELSE IF score > MediumThreshold THEN <<"medium", TRUE>>
    ELSE IF score > LowThreshold THEN <<"low", FALSE>>
    ELSE <<"unlikely", FALSE>>

\* the if/elif chain on suspicion_score: <<ai_likelihood, ai_generated>>
Likelihood(score) ==
    IF score >= HighThreshold THEN <<"high", TRUE>>
    ELSE IF score >= MediumThreshold THEN <<"medium", TRUE>>
    ELSE IF score >= LowThreshold THEN <<"low", FALSE>>
    ELSE <<"unlikely", FALSE>>

\* detect_ai_patterns(email): the returned dict
detect_ai_patterns(address) ==
    LET f == FiredRules(address)
        score == SuspicionScore(f)
        level == Likelihood(score)
    IN  [ ai_generated |-> level[2],
          ai_likelihood |-> level[1],
          suspicion_score |-> score,
          detected_patterns |-> DetectedPatterns(f) ]

(***************************************************************************)
(* validate_email_simple                                                   *)
(***************************************************************************)
MaxLocalLen == 64
MaxDomainLen == 253
MinTldLen == 2

LocalChars == LetterSet \cup DigitSet \cup {".", "_", "%", "+", "-"}
DomainChars == LetterSet \cup DigitSet \cup {".", "-"}

\* re.match(r'^[a-zA-Z0-9._%+-]+@[a-zA-Z0-9.-]+\.[a-zA-Z]{2,}$', s)
FormatMatches(s) ==
    \E a \in AtPositions(s) :
        /\ a > 1
        /\ AllIn(s, 1, a - 1, LocalChars)
        /\ \E d \in (a + 2)..(Len(s) - MinTldLen) :
              /\ s[d] = Dot
              /\ AllIn(s, a + 1, d - 1, DomainChars)
              /\ AllIn(s, d + 1, Len(s), LetterSet)

\* len(local) > 64 or len(domain) > 253
TooLong(local, domain) == Len(local) > MaxLocalLen \/ Len(domain) > MaxDomainLen

\* local.startswith('.') or local.endswith('.') or '..' in local
BadLocalDots(local) ==
    StartsWith(local, <<Dot>>) \/ EndsWith(local, <<Dot>>) \/ Contains(local, DotDot)

\* the three-key dict of a failed rule
Failure(address, message) ==
    [ email |-> address, is_valid |-> FALSE, error |-> Str(message) ]

\* a plausible slip: the address returned as typed, not lowercased
SimpleValidRecord_NotLowercased(s) ==
    [ email |-> Str(s),
      is_valid |-> TRUE,
      normalized |-> Str(s),
      local |-> Str(SplitFirst(s)),
      domain |-> Str(Lower(SplitSecond(s))),
      method |-> "regex_validation",
      error |-> PyNone ] @@ detect_ai_patterns(s)

\* the dict of an address that passed every rule; s is the stripped text
SimpleValidRecord(s) ==
    [ email |-> Str(s),
      is_valid |-> TRUE,
      normalized |-> Str(Lower(s)),
      local |-> Str(SplitFirst(s)),
      domain |-> Str(Lower(SplitSecond(s))),
      method |-> "regex_validation",
      error |-> PyNone ] @@ detect_ai_patterns(s)

\* a plausible slip: the dots of the local part checked before the lengths
validate_email_simple_DotsBeforeLength(address) ==
    IF ~Truthy(address) \/ ~IsStr(address)
    THEN Failure(address, "Email must be a string")
    ELSE LET s == Strip(Chars(address))
         IN  IF Len(s) = 0
             THEN Failure(Str(s), "Email cannot be empty")
             ELSE IF ~FormatMatches(s)
             THEN Failure(Str(s), "Invalid email format")
             ELSE IF BadLocalDots(SplitFirst(s))
             THEN Failure(Str(s), "Invalid local part format")
             ELSE IF TooLong(SplitFirst(s), SplitSecond(s))
             THEN Failure(Str(s), "Email too long")
             ELSE SimpleValidRecord(s)

\* validate_email_simple(email); no statement of its try block can raise on the
\* values modelled, so the except branch is never taken
validate_email_simple(address) ==
    IF ~Truthy(address) \/ ~IsStr(address)
    THEN Failure(address, "Email must be a string")
    ELSE LET s == Strip(Chars(address))
         IN  IF Len(s) = 0
             THEN Failure(Str(s), "Email cannot be empty")
             ELSE IF ~FormatMatches(s)
             THEN Failure(Str(s), "Invalid email format")
             ELSE IF TooLong(SplitFirst(s), SplitSecond(s))
             THEN Failure(Str(s), "Email too long")
             ELSE IF BadLocalDots(SplitFirst(s))
             THEN Failure(Str(s), "Invalid local part format")
             ELSE SimpleValidRecord(s)

(***************************************************************************)
(* The syntax delegate: validate_email of the email_validator package.     *)
(* The package is not part of the repository: whether it can be imported   *)
(* and how it judges an address are inputs of the model.  On a value that  *)
(* is not a string it fails with an error that is not EmailNotValidError;  *)
(* an address it accepts has one '@' with text on both sides, and its      *)
(* normalized form keeps the local part and lowercases the domain.         *)
(***************************************************************************)
Verdicts == {"valid", "not_valid", "error"}

\* the verdicts the delegate can give on a value
PossibleVerdicts(address) ==
    IF ~IsStr(address) THEN {"error"}
    ELSE IF /\ Cardinality(AtPositions(Chars(address))) = 1
            /\ Len(SplitFirst(Chars(address))) > 0
            /\ Len(SplitSecond(Chars(address))) > 0
         THEN Verdicts
         ELSE {"not_valid", "error"}

\* the object validate_email returns: its email, local and domain attributes
DelegateResult(s) ==
    [ email |-> SplitFirst(s) \o <<AtSign>> \o Lower(SplitSecond(s)),
      local |-> SplitFirst(s),
      domain |-> Lower(SplitSecond(s)) ]

\* str(e) of the EmailNotValidError the delegate raises
NotValidMessage == "The email address is not valid."

(***************************************************************************)
(* validate_email_advanced: the dicts of its two returning branches        *)
(***************************************************************************)
AdvancedValidRecord(address) ==
    LET valid == DelegateResult(Chars(address))
    IN  [ email |-> address,
          is_valid |-> TRUE,
          normalized |-> Str(valid.email),
          local |-> Str(valid.local),
          domain |-> Str(valid.domain),
          ascii_email |-> Str(valid.email),
          ascii_local |-> Str(valid.local),
          ascii_domain |-> Str(valid.domain),
          smtputf8 |-> FALSE,
          method |-> "email_validator_library",
          error |-> PyNone ] @@ detect_ai_patterns(Chars(address))

\* a plausible slip: the rejected address scored like an accepted one
AdvancedInvalidRecord_Scored(address) ==
    [ email |-> address,
      is_valid |-> FALSE,
      normalized |-> PyNone,
      method |-> "email_validator_library",
      error |-> Str(NotValidMessage) ] @@ detect_ai_patterns(Chars(address))

\* a plausible slip: the rejected address echoed as its normalized form
AdvancedInvalidRecord_EchoesAddress(address) ==
    [ email |-> address,
      is_valid |-> FALSE,
      normalized |-> address,
      method |-> "email_validator_library",
      error |-> Str(NotValidMessage) ]

AdvancedInvalidRecord(address) ==
    [ email |-> address,
      is_valid |-> FALSE,
      normalized |-> PyNone,
      method |-> "email_validator_library",
      error |-> Str(NotValidMessage) ]

\* The except clauses of validate_email_advanced, tried in order on the
\* exception in flight.  The names validate_email and EmailNotValidError are
\* locals of the function, bound by the import statement inside the try block:
\* when the import failed, evaluating the first clause's EmailNotValidError
\* fails with UnboundLocalError, which leaves the function.
\* a plausible slip: no catch-all clause, as in validator.py's validate_single_email
AdvancedHandler_NoCatchAll(exc, bound) ==
    IF ~bound THEN "raise UnboundLocalError"
    ELSE IF exc = "EmailNotValidError" THEN "return invalid"
    ELSE IF exc = "ImportError" THEN "return simple"
    ELSE "propagate"

\* a plausible slip: the typed error of the delegate sent to the fallback too
AdvancedHandler_SimpleOnNotValid(exc, bound) ==
    IF ~bound THEN "raise UnboundLocalError"
    ELSE IF exc = "EmailNotValidError" THEN "return simple"
    ELSE IF exc = "ImportError" THEN "return simple"
    ELSE "return simple"

AdvancedHandler(exc, bound) ==
    IF ~bound THEN "raise UnboundLocalError"
    ELSE IF exc = "EmailNotValidError" THEN "return invalid"
    ELSE IF exc = "ImportError" THEN "return simple"
    ELSE "return simple"

(***************************************************************************)
(* src/validator.py: the dicts of validate_single_email and                *)
(* validate_email_with_options                                             *)
(***************************************************************************)
CliValidRecord(address) ==
    LET valid == DelegateResult(Chars(address))
    IN  [ email |-> address,
          is_valid |-> TRUE,
          normalized |-> Str(valid.email),
          local |-> Str(valid.local),
          domain |-> Str(valid.domain),
          ascii_email |-> Str(valid.email),
          ascii_local |-> Str(valid.local),
          ascii_domain |-> Str(valid.domain),
          smtputf8 |-> FALSE,
          error |-> PyNone ]

CliInvalidRecord(address) ==
    [ email |-> address,
      is_valid |-> FALSE,
      normalized |-> PyNone,
      error |-> Str(NotValidMessage) ]

OptionsValidRecord(address) ==
    LET valid == DelegateResult(Chars(address))
    IN  [ email |-> address,
          is_valid |-> TRUE,
          normalized |-> Str(valid.email),
          local |-> Str(valid.local),
          domain |-> Str(valid.domain),
          error |-> PyNone ]

OptionsInvalidRecord(address) ==
    [ email |-> address,
      is_valid |-> FALSE,
      error |-> Str(NotValidMessage) ]

(***************************************************************************)
(* difflib.SequenceMatcher(None, a, b).ratio() > 0.7, for texts shorter    *)
(* than the 200 characters at which difflib starts to discard popular      *)
(* characters                                                              *)
(***************************************************************************)
RECURSIVE RunLength(_, _, _, _, _, _)
\* how far a[i..ahi] and b[j..bhi] agree from their first characters on
RunLength(a, b, i, ahi, j, bhi) ==
    IF i > ahi \/ j > bhi \/ a[i] # b[j] THEN 0
    ELSE 1 + RunLength(a, b, i + 1, ahi, j + 1, bhi)

\* find_longest_match: <<i, j, k>> with a[i..i+k-1] = b[j..j+k-1], k largest,
\* then i smallest, then j smallest; k = 0 when no character is shared
find_longest_match(a, b, alo, ahi, blo, bhi) ==
    LET starts == (alo..ahi) \X (blo..bhi)
        best == CHOOSE p \in starts :
                  \A q \in starts :
                    \/ RunLength(a, b, p[1], ahi, p[2], bhi)
                         > RunLength(a, b, q[1], ahi, q[2], bhi)
                    \/ /\ RunLength(a, b, p[1], ahi, p[2], bhi)
                            = RunLength(a, b, q[1], ahi, q[2], bhi)
                       /\ (p[1] < q[1] \/ (p[1] = q[1] /\ p[2] <= q[2]))
    IN  <<best[1], best[2], RunLength(a, b, best[1], ahi, best[2], bhi)>>

RECURSIVE MatchedChars(_, _, _, _, _, _)
\* get_matching_blocks: the sizes of the matching blocks, summed; the longest
\* block first, then the text left of it and the text right of it
MatchedChars(a, b, alo, ahi, blo, bhi) ==
    IF alo > ahi \/ blo > bhi THEN 0
    ELSE LET m == find_longest_match(a, b, alo, ahi, blo, bhi)
         IN  IF m[3] = 0 THEN 0
             ELSE m[3]
                  + MatchedChars(a, b, alo, m[1] - 1, blo, m[2] - 1)
                  + MatchedChars(a, b, m[1] + m[3], ahi, m[2] + m[3], bhi)

\* ratio() > 0.7, with ratio() = 2.0 * matches / (len(a) + len(b)), and 1.0
\* when both texts are empty
VerySimilar(a, b) ==
    IF Len(a) + Len(b) = 0 THEN TRUE
    ELSE 20 * MatchedChars(a, b, 1, Len(a), 1, Len(b)) > 7 * (Len(a) + Len(b))

(***************************************************************************)
(* detect_batch_ai_patterns; emails is a sequence of texts.  The float     *)
(* products len(emails) * 0.5, * 0.3 and * 0.2 compare with a count as     *)
(* the exact fractions do for every batch of under 400 addresses.          *)
(***************************************************************************)
MinBatchForAnalysis == 5
DomainRepetitionPoints == 20
SequentialBatchPoints == 25
SimilarStructuresPoints == 15
BatchDetectedThreshold == 25

\* [email.split('@')[1].lower() if '@' in email else '' for email in emails]
BatchDomains(batch) ==
    [i \in 1..Len(batch) |->
        IF HasAtSign(batch[i]) THEN Lower(SplitSecond(batch[i])) ELSE <<>>]

\* [email.split('@')[0].lower() if '@' in email else '' for email in emails]
BatchLocals(batch) ==
    [i \in 1..Len(batch) |->
        IF HasAtSign(batch[i]) THEN Lower(SplitFirst(batch[i])) ELSE <<>>]

CountOf(seq, x) == Cardinality({i \in 1..Len(seq) : seq[i] = x})

\* Counter(domains).most_common(1)[0]: <<domain, count>> of the largest count,
\* the domain met first among equals
MostCommon(domains) ==
    LET i == CHOOSE p \in 1..Len(domains) :
               /\ \A q \in 1..Len(domains) :
                     CountOf(domains, domains[q]) <= CountOf(domains, domains[p])
               /\ \A q \in 1..(p - 1) :
                     CountOf(domains, domains[q]) < CountOf(domains, domains[p])
    IN  <<domains[i], CountOf(domains, domains[i])>>

BatchWords == {W.user, W.person, W.test, W.email}

\* re.search(r'(user|person|test|email)\d+', local)
SequentialLocal(local) ==
    \E w \in BatchWords : \E p \in 1..Len(local) :
        /\ HasAt(local, p, w)
        /\ p + Len(w) <= Len(local)
        /\ local[p + Len(w)] \in DigitSet

\* sequential_count
SequentialCount(locals) ==
    Cardinality({i \in 1..Len(locals) : SequentialLocal(locals[i])})

\* similar_structures: the pairs i < j of very similar local parts
SimilarPairs(locals) ==
    Cardinality({p \in (1..Len(locals)) \X (1..Len(locals)) :
                    p[1] < p[2] /\ VerySimilar(locals[p[1]], locals[p[2]])})

\* most_common_domain[1] > len(emails) * 0.5
DomainRepetitionFires(batch) == 2 * MostCommon(BatchDomains(batch))[2] > Len(batch)

\* sequential_count > len(emails) * 0.3
SequentialBatchFires(batch) == 10 * SequentialCount(BatchLocals(batch)) > 3 * Len(batch)

\* similar_structures > len(emails) * 0.2
SimilarStructuresFires(batch) == 5 * SimilarPairs(BatchLocals(batch)) > Len(batch)

\* a plausible slip: the floor of five addresses applied as more than five
AnalysisApplies_MoreThanFloor(batch) == Len(batch) > MinBatchForAnalysis

\* not (len(emails) < 5)
AnalysisApplies(batch) == ~(Len(batch) < MinBatchForAnalysis)

\* a plausible slip: at least half instead of more than half
DomainCheck_AtLeastHalf(batch) ==
    IF 2 * MostCommon(BatchDomains(batch))[2] >= Len(batch)
    THEN [ points |-> DomainRepetitionPoints,
           patterns |-> << <<"Domain repetition", MostCommon(BatchDomains(batch))[2],
                             Len(batch), MostCommon(BatchDomains(batch))[1]>> >> ]
    ELSE [ points |-> 0, patterns |-> <<>> ]

\* the domain check: what it adds to batch_score and to batch_patterns
DomainCheck(batch) ==
    IF DomainRepetitionFires(batch)
    THEN [ points |-> DomainRepetitionPoints,
           patterns |-> << <<"Domain repetition", MostCommon(BatchDomains(batch))[2],
                             Len(batch), MostCommon(BatchDomains(batch))[1]>> >> ]
    ELSE [ points |-> 0, patterns |-> <<>> ]

\* the sequential-username check
SequentialCheck(batch) ==
    IF SequentialBatchFires(batch)
    THEN [ points |-> SequentialBatchPoints,
           patterns |-> << <<"Sequential usernames",
                             SequentialCount(BatchLocals(batch)), Len(batch)>> >> ]
    ELSE [ points |-> 0, patterns |-> <<>> ]

\* the similar-structure check
SimilarCheck(batch) ==
    IF SimilarStructuresFires(batch)
    THEN [ points |-> SimilarStructuresPoints,
           patterns |-> << <<"Similar structures detected",
                             SimilarPairs(BatchLocals(batch))>> >> ]
    ELSE [ points |-> 0, patterns |-> <<>> ]

\* detect_batch_ai_patterns(emails): the returned dict
detect_batch_ai_patterns(batch) ==
    IF ~AnalysisApplies(batch)
    THEN [ batch_ai_detected |-> FALSE, batch_patterns |-> <<>> ]
    ELSE LET d == DomainCheck(batch)
             s == SequentialCheck(batch)
             m == SimilarCheck(batch)
             batch_score == d.points + s.points + m.points
         IN  [ batch_ai_detected |-> batch_score >= BatchDetectedThreshold,
               batch_patterns |-> d.patterns \o s.patterns \o m.patterns,
               batch_score |-> batch_score ]

(***************************************************************************)
(* The values a caller passes in                                           *)
(***************************************************************************)
Repeat(c, n) == [i \in 1..n |-> c]

\* local parts: plain, with a name of the tables, with capitals, with dots at
\* the wrong places, with a character outside the pattern, at and over the
\* length limit, and empty
InputLocals ==
    { W.user,
      W.john \o <<Dot>> \o W.doe,
      <<"A", "b">>,
      <<Dot, "a", "b">>,
      <<"a", Dot, Dot, "b">>,
      <<"a", "b", Dot>>,
      <<"a", "!", "b">>,
      Repeat("a", MaxLocalLen),
      Repeat("a", MaxLocalLen + 1),
      <<Dot>> \o Repeat("a", MaxLocalLen + 1),
      <<>> }

InputSuffixes == { <<>>, <<"1">> }

\* domains: usual, with capitals, with a one-letter top-level label, at and
\* over the length limit
InputDomains ==
    { <<"g","m","a","i","l">> \o DotCom,
      <<"E","x","a","m","p","l","e",".","C","O","M">>,
      <<"b", Dot, "c">>,
      Repeat("b", MaxDomainLen - Len(DotCom)) \o DotCom,
      Repeat("b", MaxDomainLen + 1 - Len(DotCom)) \o DotCom }

\* strings that are no local@domain, and values that are no string
OtherInputs ==
    { Str(<<>>),
      Str(<<" ">>),
      Str(<<" ">> \o W.user \o <<"1", AtSign>> \o W.test \o DotCom \o <<" ">>),
      Str(W.user),
      Str(<<"a", AtSign, "b", AtSign, "c">> \o DotCom),
      PyNone,
      PyInt(0),
      PyInt(123) }

Inputs ==
    { Str(l \o x \o <<AtSign>> \o d) : l \in InputLocals, x \in InputSuffixes,
                                       d \in InputDomains }
    \cup OtherInputs

(***************************************************************************)
(* Calls and what they return                                              *)
(***************************************************************************)
NoResult == [ none |-> TRUE ]

\* how a call gives check_deliverability to the delegate
Passed(b) == IF b THEN "True" ELSE "False"
Omitted == "omitted"

Init ==
    /\ email \in Inputs
    /\ imported \in BOOLEAN
    /\ verdict \in (IF imported THEN PossibleVerdicts(email) ELSE {"none"})
    /\ entry = "none"
    /\ flag = TRUE
    /\ pc = "idle"
    /\ exception = "none"
    /\ calls = <<>>
    /\ steps = <<>>
    /\ outcome = "pending"
    /\ result = NoResult
    /\ emails = <<>>
    /\ batch_size_arg = 0
    /\ batch_size = 0
    /\ index = 0
    /\ all_results = <<>>
    /\ cleaned_emails = <<>>
    /\ single_results = <<>>
    /\ verdicts = <<>>

Return(r) ==
    /\ pc' = "done"
    /\ exception' = "none"
    /\ outcome' = "returned"
    /\ result' = r

Raise(e) ==
    /\ pc' = "done"
    /\ exception' = e
    /\ outcome' = "raised"
    /\ result' = NoResult

\* the delegate is called: the call is recorded, and the delegate answers
\* with its verdict
DelegateCalled(by, deliverability) ==
    /\ calls' = Append(calls, [ by |-> by, check_deliverability |-> deliverability ])
    /\ steps' = Append(steps, "delegate")

(***************************************************************************)
(* app.py: validate_single_email -> validate_email_advanced                *)
(***************************************************************************)
\* validate_single_email(email) is called
CallValidateSingle ==
    /\ pc = "idle"
    /\ entry' = "app.validate_single_email"
    /\ pc' = "adv_import"
    /\ UNCHANGED << email, flag, imported, verdict, exception, calls, steps,
                    outcome, result >>
    /\ UNCHANGED batchVars

\* from email_validator import validate_email, EmailNotValidError
AdvImport ==
    /\ pc = "adv_import"
    /\ IF imported
       THEN pc' = "adv_call" /\ exception' = "none"
       ELSE pc' = "adv_except" /\ exception' = "ImportError"
    /\ UNCHANGED << entry, email, flag, imported, verdict, calls, steps,
                    outcome, result >>
    /\ UNCHANGED batchVars

\* valid = validate_email(email, check_deliverability=False)
AdvDelegate ==
    /\ pc = "adv_call"
    /\ DelegateCalled("app.validate_email_advanced", Passed(FALSE))
    /\ CASE verdict = "valid" -> pc' = "adv_build" /\ exception' = "none"
         [] verdict = "not_valid" ->
                pc' = "adv_except" /\ exception' = "EmailNotValidError"
         [] OTHER -> pc' = "adv_except" /\ exception' = "Exception"
    /\ UNCHANGED << entry, email, flag, imported, verdict, outcome, result >>
    /\ UNCHANGED batchVars

\* ai_detection = detect_ai_patterns(email); return {...}
AdvBuild ==
    /\ pc = "adv_build"
    /\ steps' = Append(steps, "score")
    /\ Return(AdvancedValidRecord(email))
    /\ UNCHANGED << entry, email, flag, imported, verdict, calls >>
    /\ UNCHANGED batchVars

\* the except clauses: the invalid dict, the fallback, or an error of the
\* clause itself
AdvExcept ==
    /\ pc = "adv_except"
    /\ LET h == AdvancedHandler(exception, imported)
       IN  CASE h = "return invalid" -> Return(AdvancedInvalidRecord(email))
             [] h = "return simple" ->
                    /\ pc' = "simple"
                    /\ exception' = "none"
                    /\ UNCHANGED << outcome, result >>
             [] h = "raise UnboundLocalError" -> Raise("UnboundLocalError")
             [] OTHER -> Raise(exception)
    /\ UNCHANGED << entry, email, flag, imported, verdict, calls, steps >>
    /\ UNCHANGED batchVars

\* return validate_email_simple(email), from an except clause
AdvFallback ==
    /\ pc = "simple"
    /\ entry = "app.validate_single_email"
    /\ steps' = Append(steps, "simple")
    /\ Return(validate_email_simple(email))
    /\ UNCHANGED << entry, email, flag, imported, verdict, calls >>
    /\ UNCHANGED batchVars

\* validate_email_simple(email) is called directly
CallValidateSimple ==
    /\ pc = "idle"
    /\ entry' = "app.validate_email_simple"
    /\ steps' = Append(steps, "simple")
    /\ Return(validate_email_simple(email))
    /\ UNCHANGED << email, flag, imported, verdict, calls >>
    /\ UNCHANGED batchVars

(***************************************************************************)
(* validator.py: the module imports the package when it is loaded, so its  *)
(* functions exist only when the import succeeded                          *)
(***************************************************************************)
\* validate_single_email(email): valid = validate_email(email)
CliValidateSingle ==
    /\ pc = "idle"
    /\ imported
    /\ entry' = "validator.validate_single_email"
    /\ DelegateCalled("validator.validate_single_email", Omitted)
    /\ CASE verdict = "valid" -> Return(CliValidRecord(email))
         [] verdict = "not_valid" -> Return(CliInvalidRecord(email))
         [] OTHER -> Raise("Exception")
    /\ UNCHANGED << email, flag, imported, verdict >>
    /\ UNCHANGED batchVars

\* validate_email_with_options(email, check_deliverability)
CliValidateWithOptions ==
    /\ pc = "idle"
    /\ imported
    /\ \E b \in BOOLEAN :
         /\ flag' = b
         /\ DelegateCalled("validator.validate_email_with_options", Passed(b))
    /\ entry' = "validator.validate_email_with_options"
    /\ CASE verdict = "valid" -> Return(OptionsValidRecord(email))
         [] verdict = "not_valid" -> Return(OptionsInvalidRecord(email))
         [] OTHER -> Raise("Exception")
    /\ UNCHANGED << email, imported, verdict >>
    /\ UNCHANGED batchVars

Next ==
    \/ CallValidateSingle
    \/ AdvImport
    \/ AdvDelegate
    \/ AdvBuild
    \/ AdvExcept
    \/ AdvFallback
    \/ CallValidateSimple
    \/ CliValidateSingle
    \/ CliValidateWithOptions

Spec == Init /\ [][Next]_vars

(***************************************************************************)
(* Properties of single-address validation, checked under Spec             *)
(***************************************************************************)
AppDone == entry = "app.validate_single_email" /\ pc = "done"

Ran(step) == \E i \in DOMAIN steps : steps[i] = step

\* key k of dict r is present and not None
Present(r, k) == k \in DOMAIN r /\ r[k] # PyNone

\* key k of dict r is absent or None
AbsentOrNone(r, k) == k \notin DOMAIN r \/ r[k] = PyNone

\* C1: when the import of the email_validator package inside
\* validate_email_advanced fails, validate_single_email does not raise: it
\* returns the record validate_email_simple produces for the address.
C1_ImportFailureFallsBack ==
    (AppDone /\ ~imported) =>
        (outcome = "returned" /\ result = validate_email_simple(email))

\* C2: when the package is available and the delegate fails with an error
\* other than EmailNotValidError, validate_single_email does not propagate the
\* error: it returns the record validate_email_simple produces for the input.
C2_UnexpectedErrorFallsBack ==
    (AppDone /\ imported /\ verdict = "error") =>
        (outcome = "returned" /\ result = validate_email_simple(email))

\* C2 witness: the delegate failed on a value that is no string, and the
\* rule-based record came back
C2_Witness ==
    /\ AppDone /\ imported /\ verdict = "error"
    /\ ~IsStr(email)
    /\ Ran("delegate") /\ Ran("simple")
    /\ outcome = "returned"
    /\ result.error = Str("Email must be a string")

\* C3: every call made to the delegate has the deliverability check
\* disabled, whichever validation path made it.
C3_EveryDelegateCallDisablesDeliverability ==
    \A i \in DOMAIN calls : calls[i].check_deliverability = Passed(FALSE)

\* C4: a record returned by validate_email_simple or validate_email_advanced
\* with is_valid true has normalized, local and domain present and not None;
\* one with is_valid false has a non-None error, and normalized, local and
\* domain absent or None.
C4_RecordInvariant ==
    (/\ entry \in {"app.validate_single_email", "app.validate_email_simple"}
     /\ outcome = "returned") =>
        IF result.is_valid
        THEN /\ Present(result, "normalized")
             /\ Present(result, "local")
             /\ Present(result, "domain")
        ELSE /\ Present(result, "error")
             /\ AbsentOrNone(result, "normalized")
             /\ AbsentOrNone(result, "local")
             /\ AbsentOrNone(result, "domain")

\* C4 witness: validate_email_advanced returned the record of an address the
\* delegate rejected, which carries the key normalized
C4_Witness ==
    /\ AppDone /\ outcome = "returned"
    /\ verdict = "not_valid"
    /\ ~result.is_valid
    /\ "normalized" \in DOMAIN result

\* the precondition of C5: the address matches the pattern of rule 2, its local
\* part has at most 64 characters and its domain at most 253, and the local
\* part has no leading, trailing or doubled dot
WellFormed(v) ==
    /\ IsStr(v)
    /\ FormatMatches(Chars(v))
    /\ ~TooLong(SplitFirst(Chars(v)), SplitSecond(Chars(v)))
    /\ ~BadLocalDots(SplitFirst(Chars(v)))

LowercaseOfInput(r, v) == r.is_valid /\ r.normalized = Str(Lower(Chars(v)))

\* C5 as claimed, in the executions where the delegate accepts the address:
\* for a well-formed address validate_single_email returns is_valid = true
\* with normalized the lowercase of the whole input.
C5_SingleEmailLowercasesInput ==
    (AppDone /\ outcome = "returned" /\ verdict = "valid" /\ WellFormed(email)) =>
        LowercaseOfInput(result, email)

\* C5 amended: for a well-formed address the rule-based validator
\* validate_email_simple returns is_valid = true with normalized the lowercase
\* of the whole input, called directly or as the fallback of
\* validate_single_email.
C5_SimpleLowercasesInput ==
    (/\ pc = "done"
     /\ \/ entry = "app.validate_email_simple"
        \/ entry = "app.validate_single_email" /\ Ran("simple")
     /\ WellFormed(email)) =>
        (outcome = "returned" /\ LowercaseOfInput(result, email))

\* C5 witness: a well-formed address with capitals went through the fallback
\* and came back lowercased
C5_Witness ==
    /\ AppDone /\ Ran("delegate") /\ Ran("simple")
    /\ WellFormed(email)
    /\ Lower(Chars(email)) # Chars(email)
    /\ outcome = "returned"
    /\ LowercaseOfInput(result, email)

(***************************************************************************)
(* The heuristic scorer on its own: detect_ai_patterns applied to          *)
(* addresses made of a local part, a run of digits and a domain            *)
(***************************************************************************)
MaxDigits == 4

DigitRun(k) == [i \in 1..k |-> <<"1","2","3","4","5","6","7","8","9","0">>[((i - 1) % 10) + 1]]

ScoreLocals ==
    { W.user,
      W.test,
      W.john,
      <<"a","b","c">>,
      W.john \o <<Dot>> \o W.doe,
      W.john \o W.doe,
      W.jane \o <<Dot>> \o W.smith \o W.john \o W.doe,
      <<"J","o","h","n">> }

ScoreDomains ==
    { <<"g","m","a","i","l">> \o DotCom,
      <<"a","b","c">> \o DotCom,
      W.example \o DotCom,
      W.company \o DotCom,
      W.mail \o DotCom,
      <<"a","b","c","d","e">> \o W.corp \o DotCom,
      <<"a","b","c">> \o W.inc \o DotCom,
      W.test \o W.corp \o DotCom,
      <<"f","a","k","e">> \o DotCom,
      <<"e","x","a","m","p","l","e",".","o","r","g">>,
      <<"G","m","a","i","l",".","C","O","M">>,
      <<"a","-","b">> \o DotCom }

ScoreInputs ==
    { Str(l \o DigitRun(k) \o <<AtSign>> \o d) :
        l \in ScoreLocals, k \in 0..MaxDigits, d \in ScoreDomains }
    \cup { Str(W.user \o <<"1">>), Str(<<>>) }

InitScore ==
    /\ email \in ScoreInputs
    /\ imported = TRUE
    /\ verdict = "none"
    /\ entry = "none"
    /\ flag = TRUE
    /\ pc = "idle"
    /\ exception = "none"
    /\ calls = <<>>
    /\ steps = <<>>
    /\ outcome = "pending"
    /\ result = NoResult
    /\ emails = <<>>
    /\ batch_size_arg = 0
    /\ batch_size = 0
    /\ index = 0
    /\ all_results = <<>>
    /\ cleaned_emails = <<>>
    /\ single_results = <<>>
    /\ verdicts = <<>>

\* detect_ai_patterns(email) is called
CallDetectAi ==
    /\ pc = "idle"
    /\ entry' = "app.detect_ai_patterns"
    /\ steps' = Append(steps, "score")
    /\ Return(detect_ai_patterns(Chars(email)))
    /\ UNCHANGED << email, flag, imported, verdict, calls >>
    /\ UNCHANGED batchVars

NextScore == CallDetectAi

SpecScore == InitScore /\ [][NextScore]_vars

ScoreDone == entry = "app.detect_ai_patterns" /\ pc = "done"

\* C6: the likelihood and the flag are determined by the score alone:
\* s >= 40 gives 'high' and true, 20 <= s < 40 'medium' and true,
\* 10 <= s < 20 'low' and false, s < 10 'unlikely' and false; hence
\* ai_generated is true exactly when s >= 20.
C6_ScoreDeterminesLikelihood ==
    ScoreDone =>
        LET s == result.suspicion_score
            l == result.ai_likelihood
            g == result.ai_generated
        IN  /\ (s >= 40) => (l = "high" /\ g)
            /\ (s >= 20 /\ s < 40) => (l = "medium" /\ g)
            /\ (s >= 10 /\ s < 20) => (l = "low" /\ ~g)
            /\ (s < 10) => (l = "unlikely" /\ ~g)
            /\ g <=> (s >= 20)

\* C6 witness: a score exactly at the boundary 20 is 'medium' and flagged
C6_Witness ==
    /\ ScoreDone
    /\ result.suspicion_score = 20
    /\ result.ai_likelihood = "medium"
    /\ result.ai_generated

\* the rules of a table of n rules that match, as a set of indices
MatchingRules(n, Matches(_)) == {i \in 1..n : Matches(i)}

MatchingSequential(s) ==
    MatchingRules(Len(SequentialWords), LAMBDA i : SequentialMatches(i, Lower(s)))
MatchingTemplated(s) ==
    MatchingRules(NumTemplated, LAMBDA i : TemplatedMatches(i, Lower(s)))
MatchingCommonName(s) ==
    MatchingRules(Len(CommonNames),
                  LAMBDA i : CommonNameMatches(i, LocalPartOf(Lower(s))))
MatchingSuspiciousDomain(s) ==
    MatchingRules(NumSuspiciousDomains,
                  LAMBDA i : SuspiciousDomainMatches(i, Lower(s)))

Points(matched, points) == IF matched THEN points ELSE 0

\* C7 as claimed: the score is the sum of the points of the families that
\* match, each matching family contributing its points once (+30, +20, +15,
\* +25, +40, +10), also when several rules of the family match.
C7_ScoreCountsFamiliesOnce ==
    ScoreDone =>
        LET s == Chars(email)
        IN  result.suspicion_score =
                  Points(MatchingSequential(s) # {}, 30)
                + Points(MatchingTemplated(s) # {}, 20)
                + Points(MatchingCommonName(s) # {}, 15)
                + Points(MatchingSuspiciousDomain(s) # {}, 25)
                + Points(DomainPartOf(Lower(s)) \in FAKE_DOMAINS, 40)
                + Points(OverlyPerfect(Lower(s)), 10)

\* C7 amended: the score is the sum over the rules that match, each matching
\* rule contributing the points of its family (+30, +20, +15, +25), plus +40
\* for a known fake domain and +10 for the overly-perfect pattern; an address
\* that matches two rules of a family receives that family's points twice.
C7_ScoreCountsRules ==
    ScoreDone =>
        LET s == Chars(email)
        IN  result.suspicion_score =
                  30 * Cardinality(MatchingSequential(s))
                + 20 * Cardinality(MatchingTemplated(s))
                + 15 * Cardinality(MatchingCommonName(s))
                + 25 * Cardinality(MatchingSuspiciousDomain(s))
                + Points(DomainPartOf(Lower(s)) \in FAKE_DOMAINS, 40)
                + Points(OverlyPerfect(Lower(s)), 10)

\* C7 witness: an address on which two templated rules and nothing else match
\* scored 40
C7_Witness ==
    /\ ScoreDone
    /\ Cardinality(MatchingTemplated(Chars(email))) = 2
    /\ Len(result.detected_patterns) = 2
    /\ result.suspicion_score = 40

(***************************************************************************)
(* The batch analyzer on its own: detect_batch_ai_patterns applied to      *)
(* batches drawn from a pool of addresses.  A batch is listed in pool      *)
(* order: the analysis counts domains, local parts and pairs, so that the  *)
(* order of a batch decides only which of two equally frequent domains     *)
(* the message names.                                                      *)
(***************************************************************************)
MaxBatch == 6

BatchPool ==
    << W.user \o <<"1", AtSign, "x">> \o DotCom,
       W.user \o <<"2", AtSign, "X", ".", "C", "O", "M">>,
       <<"b","o","b", AtSign, "x">> \o DotCom,
       <<"z","e","d", AtSign, "X">> \o DotCom,
       <<"a","m","y", AtSign, "x">> \o DotCom,
       <<"k","i","m", AtSign, "y", ".", "o", "r", "g">>,
       <<"n","o","a","t">> >>

RECURSIVE PoolOrdered(_, _)
\* the sequences of n pool indices, each at least lo, in nondecreasing order
PoolOrdered(n, lo) ==
    IF n = 0 THEN { <<>> }
    ELSE UNION { { <<k>> \o s : s \in PoolOrdered(n - 1, k) } :
                   k \in lo..Len(BatchPool) }

Batches ==
    { [i \in 1..Len(s) |-> BatchPool[s[i]]] :
        s \in UNION { PoolOrdered(n, 1) : n \in 0..MaxBatch } }

InitBatch ==
    /\ emails \in Batches
    /\ email = PyNone
    /\ imported = TRUE
    /\ verdict = "none"
    /\ entry = "none"
    /\ flag = TRUE
    /\ pc = "idle"
    /\ exception = "none"
    /\ calls = <<>>
    /\ steps = <<>>
    /\ outcome = "pending"
    /\ result = NoResult
    /\ batch_size_arg = 0
    /\ batch_size = 0
    /\ index = 0
    /\ all_results = <<>>
    /\ cleaned_emails = <<>>
    /\ single_results = <<>>
    /\ verdicts = <<>>

\* detect_batch_ai_patterns(emails) is called
CallDetectBatch ==
    /\ pc = "idle"
    /\ entry' = "app.detect_batch_ai_patterns"
    /\ Return(detect_batch_ai_patterns(emails))
    /\ UNCHANGED << email, flag, imported, verdict, calls, steps >>
    /\ UNCHANGED batchVars

NextBatch == CallDetectBatch

SpecBatch == InitBatch /\ [][NextBatch]_vars

BatchDone == entry = "app.detect_batch_ai_patterns" /\ pc = "done"

\* batch_patterns holds a message of the named check
Reported(r, label) ==
    \E k \in DOMAIN r.batch_patterns : r.batch_patterns[k][1] = label

\* C8: batch_ai_detected is true exactly when the batch has at least 5
\* addresses and batch_score >= 25, batch_score being the sum of +20 (domain
\* concentration), +25 (sequential-username ratio) and +15 (near-duplicate
\* local parts) over the checks that triggered; with fewer than 5 addresses
\* the result is false with empty batch_patterns; a batch in which only
\* domain concentration triggers is not flagged.
C8_BatchFlag ==
    BatchDone =>
        LET n == Len(emails)
            score == Points(DomainRepetitionFires(emails), 20)
                     + Points(SequentialBatchFires(emails), 25)
                     + Points(SimilarStructuresFires(emails), 15)
        IN  /\ result.batch_ai_detected <=> (n >= 5 /\ score >= 25)
            /\ (n < 5) => (~result.batch_ai_detected /\ result.batch_patterns = <<>>)
            /\ (n >= 5) => (result.batch_score = score)
            /\ (/\ n >= 5
                /\ DomainRepetitionFires(emails)
                /\ ~SequentialBatchFires(emails)
                /\ ~SimilarStructuresFires(emails)) => ~result.batch_ai_detected

\* C8 witness: five addresses or more on which only domain concentration
\* triggered: the score is 20 and the batch is not flagged
C8_Witness ==
    /\ BatchDone
    /\ Len(emails) >= 5
    /\ Reported(result, "Domain repetition")
    /\ Len(result.batch_patterns) = 1
    /\ result.batch_score = 20
    /\ ~result.batch_ai_detected

\* the text after the first '@', lowercased; empty without '@'
DomainText(e) == IF HasAtSign(e) THEN Lower(SplitSecond(e)) ELSE <<>>

\* how many addresses of the batch have the domain of its i-th address
SharingDomain(batch, i) ==
    Cardinality({j \in 1..Len(batch) : DomainText(batch[j]) = DomainText(batch[i])})

\* C9: on a batch of n >= 5 addresses the domain-concentration check fires
\* (adds +20 and one message) exactly when the count of the most frequent
\* domain, compared case-insensitively, is strictly greater than n/2.
C9_DomainConcentration ==
    (BatchDone /\ Len(emails) >= 5) =>
        LET n == Len(emails)
            concentrated == \E i \in 1..n : 2 * SharingDomain(emails, i) > n
            messages == {k \in DOMAIN result.batch_patterns :
                            result.batch_patterns[k][1] = "Domain repetition"}
        IN  /\ Cardinality(messages) = (IF concentrated THEN 1 ELSE 0)
            /\ result.batch_score =
                  Points(concentrated, 20)
                  + Points(Reported(result, "Sequential usernames"), 25)
                  + Points(Reported(result, "Similar structures detected"), 15)

\* C9 witness: six addresses of which exactly three share the most frequent
\* domain, written in both letter cases: the check did not fire
C9_Witness ==
    /\ BatchDone
    /\ Len(emails) = 6
    /\ \E i \in 1..6 : SharingDomain(emails, i) = 3
    /\ \A i \in 1..6 : SharingDomain(emails, i) <= 3
    /\ \E i \in 1..6 : \E j \in 1..6 :
          /\ HasAtSign(emails[i]) /\ HasAtSign(emails[j])
          /\ DomainText(emails[i]) = DomainText(emails[j])
          /\ SplitSecond(emails[i]) # SplitSecond(emails[j])
    /\ ~Reported(result, "Domain repetition")

(***************************************************************************)
(* Chunked validation: chunk_emails and the two validate_email_batches.    *)
(***************************************************************************)
MinBatchSize == 30

\* max(batch_size, 1): a floor that only keeps the step of range positive
EffectiveBatchSize_FloorOne(size) ==
    IF size > 1 THEN size ELSE 1

\* max(batch_size, 30)
EffectiveBatchSize(size) ==
    IF size > MinBatchSize THEN size ELSE MinBatchSize

\* seq[lo:hi] for 0 <= lo <= hi
Slice(seq, lo, hi) ==
    SubSeq(seq, lo + 1, IF hi < Len(seq) THEN hi ELSE Len(seq))

RECURSIVE ChunksFrom(_, _, _)
\* for i in range(i, len(emails), batch_size): yield emails[i:i + batch_size]
ChunksFrom(list, i, size) ==
    IF i >= Len(list) THEN <<>>
    ELSE <<Slice(list, i, i + size)>> \o ChunksFrom(list, i + size, size)

\* list(chunk_emails(emails, batch_size))
chunk_emails(list, size) == ChunksFrom(list, 0, EffectiveBatchSize(size))

Returned(value) == [ outcome |-> "returned", value |-> value ]
Raised(exc) == [ outcome |-> "raised", value |-> exc ]

\* app.py validate_single_email(email) as one step: what it returns or
\* raises when the import succeeds or not and the delegate answers v
ValidateSingleOutcome(address, imp, v) ==
    LET exc == IF ~imp THEN "ImportError"
               ELSE IF v = "valid" THEN "none"
               ELSE IF v = "not_valid" THEN "EmailNotValidError"
               ELSE "Exception"
        h == AdvancedHandler(exc, imp)
    IN  IF exc = "none" THEN Returned(AdvancedValidRecord(address))
        ELSE CASE h = "return invalid" -> Returned(AdvancedInvalidRecord(address))
               [] h = "return simple" -> Returned(validate_email_simple(address))
               [] h = "raise UnboundLocalError" -> Raised("UnboundLocalError")
               [] OTHER -> Raised(exc)

\* validator.py validate_single_email(email) as one step
CliSingleOutcome(address, v) ==
    CASE v = "valid" -> Returned(CliValidRecord(address))
      [] v = "not_valid" -> Returned(CliInvalidRecord(address))
      [] OTHER -> Raised("Exception")

\* the dicts of a batch in the reverse of the batch's order
ValidateList_Reversed(outs) ==
    IF \E k \in 1..Len(outs) : outs[k].outcome = "raised"
    THEN outs[CHOOSE k \in 1..Len(outs) :
                 /\ outs[k].outcome = "raised"
                 /\ \A j \in 1..(k - 1) : outs[j].outcome = "returned"]
    ELSE Returned([k \in 1..Len(outs) |-> outs[Len(outs) + 1 - k].value])

\* [validate_single_email(email) for email in batch], on the outcomes of the
\* addresses of the batch: the list of dicts, or the first exception
ValidateList(outs) ==
    IF \E k \in 1..Len(outs) : outs[k].outcome = "raised"
    THEN outs[CHOOSE k \in 1..Len(outs) :
                 /\ outs[k].outcome = "raised"
                 /\ \A j \in 1..(k - 1) : outs[j].outcome = "returned"]
    ELSE Returned([k \in 1..Len(outs) |-> outs[k].value])

\* how many addresses of the batch were validated: all of them, or those up
\* to the one that raised
Validated(outs) ==
    IF \E k \in 1..Len(outs) : outs[k].outcome = "raised"
    THEN CHOOSE k \in 1..Len(outs) :
            /\ outs[k].outcome = "raised"
            /\ \A j \in 1..(k - 1) : outs[j].outcome = "returned"
    ELSE Len(outs)

RECURSIVE BatchesFrom(_, _, _, _)
\* the loop of validate_email_batches from index i on, on the outcomes of
\* the addresses of the list
BatchesFrom(outs, i, size, acc) ==
    IF i >= Len(outs) THEN Returned(acc)
    ELSE LET batch_results == ValidateList(Slice(outs, i, i + size))
         IN  IF batch_results.outcome = "raised" THEN batch_results
             ELSE BatchesFrom(outs, i + size, size, acc \o batch_results.value)

\* validate_email_batches(emails, batch_size) as one step
validate_email_batches(outs, size) ==
    IF Len(outs) = 0 THEN Returned(<<>>)
    ELSE BatchesFrom(outs, 0, EffectiveBatchSize(size), <<>>)

(***************************************************************************)
(* The lists a caller passes: the first n addresses of a list whose        *)
(* addresses all differ, every third one without '@' and every third one   *)
(* with capitals in its domain.  The delegate's answer is drawn per kind   *)
(* of address.                                                             *)
(***************************************************************************)
MaxEmails == 61
MaxBatchSizeArg == 31

DecimalDigits == <<"0","1","2","3","4","5","6","7","8","9">>

\* str(i) for 0 <= i < 100
Decimal(i) ==
    IF i < 10 THEN <<DecimalDigits[i + 1]>>
    ELSE <<DecimalDigits[(i \div 10) + 1], DecimalDigits[(i % 10) + 1]>>

AddressKinds == {"plain", "capitals", "no_at"}

KindAt(i) ==
    CASE i % 3 = 1 -> "plain"
      [] i % 3 = 2 -> "capitals"
      [] OTHER -> "no_at"

\* the i-th address; every other address of the two kinds with '@' has a
\* text the scorer flags
AddressAt(i) ==
    CASE KindAt(i) = "plain" /\ i % 2 = 1 ->
             W.user \o Decimal(i) \o <<AtSign>> \o W.test \o DotCom
      [] KindAt(i) = "plain" -> Decimal(i) \o <<AtSign, "x">> \o DotCom
      [] KindAt(i) = "capitals" /\ i % 2 = 1 ->
             W.test \o Decimal(i) \o <<AtSign, "E", "x", "a", "m", "p", "l", "e">> \o DotCom
      [] KindAt(i) = "capitals" -> Decimal(i) \o <<AtSign, "Y", ".", "O", "r", "g">>
      [] OTHER -> Decimal(i)

AddressList(n) == [i \in 1..n |-> AddressAt(i)]

BatchSizeArgs == {-1, 0, 1, 29, 30} \cup (31..MaxBatchSizeArg)

\* the answers the delegate can give on the addresses of the list
DelegateAnswers ==
    { f \in [AddressKinds -> Verdicts] :
        \A i \in 1..3 : f[KindAt(i)] \in PossibleVerdicts(Str(AddressAt(i))) }

\* validate_single_email on the i-th address for each answer the delegate
\* can give on it, and when the import fails; the tables are computed once
SingleOutcomes ==
    <<>> \o [i \in 1..(MaxEmails + 1) |->
                [v \in PossibleVerdicts(Str(AddressAt(i))) |->
                    ValidateSingleOutcome(Str(AddressAt(i)), TRUE, v)]
                @@ [v \in {"no_import"} |->
                    ValidateSingleOutcome(Str(AddressAt(i)), FALSE, "error")]]

CliOutcomes ==
    <<>> \o [i \in 1..(MaxEmails + 1) |->
                [v \in PossibleVerdicts(Str(AddressAt(i))) |->
                    CliSingleOutcome(Str(AddressAt(i)), v)] @@ <<>>]

\* the outcomes of the addresses of the list, in the list's order
AppOutcomesOf(list) ==
    [i \in 1..Len(list) |->
        SingleOutcomes[i][IF imported THEN verdicts[KindAt(i)] ELSE "no_import"]]

CliOutcomesOf(list) ==
    [i \in 1..Len(list) |-> CliOutcomes[i][verdicts[KindAt(i)]]]

InitChunk ==
    /\ emails \in { AddressList(n) : n \in 0..MaxEmails }
    /\ batch_size_arg \in BatchSizeArgs
    /\ imported \in BOOLEAN
    /\ verdicts \in DelegateAnswers
    /\ imported \/ \A k \in AddressKinds : verdicts[k] = "error"
    /\ email = PyNone
    /\ verdict = "none"
    /\ entry = "none"
    /\ flag = TRUE
    /\ pc = "idle"
    /\ exception = "none"
    /\ calls = <<>>
    /\ steps = <<>>
    /\ outcome = "pending"
    /\ result = NoResult
    /\ batch_size = 0
    /\ index = 0
    /\ all_results = <<>>
    /\ cleaned_emails = <<>>
    /\ single_results = <<>>

\* n calls of the delegate by one function
DelegateCalls(by, deliverability, n) ==
    [k \in 1..n |-> [ by |-> by, check_deliverability |-> deliverability ]]

\* app.py validate_email_batches(emails, batch_size) is called: the empty
\* list returns at once, otherwise batch_size = max(batch_size, 30)
AppBatchCall ==
    /\ pc = "idle"
    /\ entry' = "app.validate_email_batches"
    /\ IF Len(emails) = 0
       THEN /\ Return(<<>>)
            /\ UNCHANGED << batch_size, index, all_results >>
       ELSE /\ batch_size' = EffectiveBatchSize(batch_size_arg)
            /\ index' = 0
            /\ all_results' = <<>>
            /\ pc' = "app_batches"
            /\ UNCHANGED << exception, outcome, result >>
    /\ UNCHANGED << email, flag, imported, verdict, calls, steps, emails,
                    batch_size_arg, verdicts,
                    cleaned_emails, single_results >>

\* one turn of the loop: batch = emails[i:i + batch_size], every address of
\* it validated, the dicts appended to all_results
AppBatchChunk ==
    /\ pc = "app_batches"
    /\ index < Len(emails)
    /\ LET outs == Slice(AppOutcomesOf(emails), index, index + batch_size)
           batch_results == ValidateList(outs)
       IN  /\ calls' = calls \o DelegateCalls("app.validate_email_advanced",
                                              Passed(FALSE),
                                              IF imported THEN Validated(outs) ELSE 0)
           /\ IF batch_results.outcome = "raised"
              THEN /\ Raise(batch_results.value)
                   /\ UNCHANGED << index, all_results >>
              ELSE /\ all_results' = all_results \o batch_results.value
                   /\ index' = index + batch_size
                   /\ UNCHANGED << pc, exception, outcome, result >>
    /\ UNCHANGED << entry, email, flag, imported, verdict, steps, emails,
                    batch_size_arg, batch_size, verdicts,
                    cleaned_emails, single_results >>

\* the loop is over: return all_results
AppBatchReturn ==
    /\ pc = "app_batches"
    /\ index >= Len(emails)
    /\ Return(all_results)
    /\ UNCHANGED << entry, email, flag, imported, verdict, calls, steps >>
    /\ UNCHANGED batchVars

\* validator.py validate_email_batches(emails, batch_size) is called
CliBatchCall ==
    /\ pc = "idle"
    /\ imported
    /\ entry' = "validator.validate_email_batches"
    /\ IF Len(emails) = 0
       THEN /\ Return(<<>>)
            /\ UNCHANGED << batch_size, index, all_results >>
       ELSE /\ batch_size' = EffectiveBatchSize(batch_size_arg)
            /\ index' = 0
            /\ all_results' = <<>>
            /\ pc' = "cli_batches"
            /\ UNCHANGED << exception, outcome, result >>
    /\ UNCHANGED << email, flag, imported, verdict, calls, steps, emails,
                    batch_size_arg, verdicts,
                    cleaned_emails, single_results >>

\* one turn of the loop over chunk_emails(emails, batch_size), which takes
\* max(batch_size, 30) again: the batch goes through validate_email_list
CliBatchChunk ==
    /\ pc = "cli_batches"
    /\ index < Len(emails)
    /\ LET size == EffectiveBatchSize(batch_size)
           outs == Slice(CliOutcomesOf(emails), index, index + size)
           batch_results == ValidateList(outs)
       IN  /\ calls' = calls \o DelegateCalls("validator.validate_single_email",
                                              Omitted, Validated(outs))
           /\ IF batch_results.outcome = "raised"
              THEN /\ Raise(batch_results.value)
                   /\ UNCHANGED << index, all_results >>
              ELSE /\ all_results' = all_results \o batch_results.value
                   /\ index' = index + size
                   /\ UNCHANGED << pc, exception, outcome, result >>
    /\ UNCHANGED << entry, email, flag, imported, verdict, steps, emails,
                    batch_size_arg, batch_size, verdicts,
                    cleaned_emails, single_results >>

\* chunk_emails is exhausted: return all_results
CliBatchReturn ==
    /\ pc = "cli_batches"
    /\ index >= Len(emails)
    /\ Return(all_results)
    /\ UNCHANGED << entry, email, flag, imported, verdict, calls, steps >>
    /\ UNCHANGED batchVars

\* list(chunk_emails(emails, batch_size)) is called: the generator starts
\* with batch_size = max(batch_size, 30)
ChunkCall ==
    /\ pc = "idle"
    /\ imported
    /\ entry' = "validator.chunk_emails"
    /\ batch_size' = EffectiveBatchSize(batch_size_arg)
    /\ index' = 0
    /\ all_results' = <<>>
    /\ pc' = "chunks"
    /\ UNCHANGED << email, flag, imported, verdict, exception, calls, steps,
                    outcome, result, emails, batch_size_arg, verdicts,
                    cleaned_emails, single_results >>

\* yield emails[i:i + batch_size]
ChunkYield ==
    /\ pc = "chunks"
    /\ index < Len(emails)
    /\ all_results' = Append(all_results, Slice(emails, index, index + batch_size))
    /\ index' = index + batch_size
    /\ UNCHANGED << entry, email, flag, imported, verdict, pc, exception, calls,
                    steps, outcome, result, emails, batch_size_arg, batch_size,
                    verdicts,
                    cleaned_emails, single_results >>

\* the generator is exhausted: the list of the chunks it yielded
ChunkStop ==
    /\ pc = "chunks"
    /\ index >= Len(emails)
    /\ Return(all_results)
    /\ UNCHANGED << entry, email, flag, imported, verdict, calls, steps >>
    /\ UNCHANGED batchVars

NextChunk ==
    \/ AppBatchCall
    \/ AppBatchChunk
    \/ AppBatchReturn
    \/ CliBatchCall
    \/ CliBatchChunk
    \/ CliBatchReturn
    \/ ChunkCall
    \/ ChunkYield
    \/ ChunkStop

SpecChunk == InitChunk /\ [][NextChunk]_vars

BatchEntries == {"app.validate_email_batches", "validator.validate_email_batches"}

\* what the call of the state's entry returns or raises on the state's list
\* when the requested batch size is n
BatchRun(n) ==
    IF entry = "app.validate_email_batches"
    THEN validate_email_batches(AppOutcomesOf(emails), n)
    ELSE validate_email_batches(CliOutcomesOf(emails), n)

\* what the finished call returned or raised
Finished ==
    IF outcome = "returned" THEN Returned(result) ELSE Raised(exception)

\* C10: for every address list and every requested batch size n < 30, 0 and
\* negative values included, chunk_emails(addresses, n) yields the chunks of
\* chunk_emails(addresses, 30), and validate_email_batches(addresses, n)
\* returns the records of validate_email_batches(addresses, 30): the
\* effective batch size is max(n, 30).
C10_SmallSizesActAsThirty ==
    (pc = "done" /\ batch_size_arg < 30) =>
        /\ (entry = "validator.chunk_emails") =>
              /\ result = chunk_emails(emails, 30)
              /\ batch_size = 30
        /\ (entry \in BatchEntries) =>
              /\ Finished = BatchRun(30)
              /\ (Len(emails) > 0) => (batch_size = 30)

\* C10 witness: validate_email_batches, asked for batches of 0 or fewer,
\* returned the records of a list of more than 30 addresses, one per
\* address, having worked with batches of 30
C10_Witness ==
    /\ pc = "done"
    /\ entry \in BatchEntries
    /\ batch_size_arg <= 0
    /\ Len(emails) > 30
    /\ outcome = "returned"
    /\ Len(result) = Len(emails)
    /\ batch_size = 30
    /\ index = 60


\* the outcomes of the addresses of the state's list under the state's entry
OutcomesOfEntry ==
    IF entry = "app.validate_email_batches"
    THEN AppOutcomesOf(emails)
    ELSE CliOutcomesOf(emails)

\* C11: validate_email_batches processes the list as contiguous chunks of the
\* effective batch size, in list order: after k chunks all_results holds
\* exactly the records of the first min(k*b, n) addresses in input order, and
\* the returned list has one record per input address, record i being that
\* of address i.
C11_ChunksInOrder ==
    (entry \in BatchEntries) =>
        LET n == Len(emails)
            outs == OutcomesOfEntry
        IN  /\ (pc \in {"app_batches", "cli_batches"}) =>
                  /\ \E k \in 0..n : index = k * batch_size
                  /\ Len(all_results) = (IF index < n THEN index ELSE n)
                  /\ \A i \in 1..Len(all_results) :
                        /\ all_results[i] = outs[i].value
                        /\ all_results[i].email = Str(emails[i])
            /\ (pc = "done" /\ outcome = "returned") =>
                  /\ Len(result) = n
                  /\ \A i \in 1..n :
                        /\ result[i] = outs[i].value
                        /\ result[i].email = Str(emails[i])

\* C11 witness: two full chunks of a list of 61 addresses are processed, the
\* 60 records are accumulated and the short last chunk is still to come
C11_Witness ==
    /\ entry \in BatchEntries
    /\ pc \in {"app_batches", "cli_batches"}
    /\ batch_size = 30
    /\ index = 60
    /\ Len(emails) > 60
    /\ Len(all_results) = 60


(***************************************************************************)
(* POST /validate/batch: validate_batch_endpoint.  The request is the      *)
(* value of data['emails'] (Absent when data is empty or has no such key)  *)
(* and the integer data['batch_size']; the response is the status code     *)
(* and the JSON body.  A number rounded to two decimals is held as its     *)
(* count of hundredths.                                                    *)
(***************************************************************************)
Absent == <<"absent">>
PyList(items) == <<"list", items>>
IsList(v) == v[1] = "list"
Items(v) == v[2]

JsonResponse(status, body) == [ status |-> status, body |-> body ]
ErrorResponse(status, message) == JsonResponse(status, [ error |-> message ])

\* isinstance(email, str) and email.strip()
Cleanable(item) == IsStr(item) /\ Len(Strip(Chars(item))) > 0

RECURSIVE CleanFrom(_, _)
\* the loop of lines 440-442 from the i-th item on
CleanFrom(items, i) ==
    IF i > Len(items) THEN <<>>
    ELSE (IF Cleanable(items[i]) THEN <<Strip(Chars(items[i]))>> ELSE <<>>)
         \o CleanFrom(items, i + 1)

\* cleaned_emails
CleanedEmails(items) == CleanFrom(items, 1)

\* sum(1 for r in results if r.get('normalized')): a count by another key
ValidCount_ByNormalizedKey(results) ==
    Cardinality({i \in 1..Len(results) : "normalized" \in DOMAIN results[i]})

\* sum(1 for r in results if r['is_valid'])
ValidCount(results) ==
    Cardinality({i \in 1..Len(results) : results[i].is_valid})

\* sum(1 for r in results if r.get('ai_generated', False))
AiDetectedCount(results) ==
    Cardinality({i \in 1..Len(results) :
                    /\ "ai_generated" \in DOMAIN results[i]
                    /\ results[i].ai_generated})

\* round((count / total) * 100, 2) in hundredths, total > 0: the nearest
\* hundredth, a tie going to the even one (exact for total < 160)
RoundedPercent(count, total) ==
    LET q == count * 10000
        lo == q \div total
        r == q % total
    IN  IF 2 * r < total THEN lo
        ELSE IF 2 * r > total THEN lo + 1
        ELSE IF lo % 2 = 0 THEN lo ELSE lo + 1

NotApplicable == Str(<<"N", "/", "A">>)

\* the 'summary' dict; requested is the batch_size of the request
BatchSummary(results, cleaned, requested) ==
    LET valid_count == ValidCount(results)
        ai_detected_count == AiDetectedCount(results)
    IN  [ total |-> Len(results),
          valid |-> valid_count,
          invalid |-> Len(results) - valid_count,
          ai_detected |-> ai_detected_count,
          success_rate |->
              IF Len(results) > 0 THEN RoundedPercent(valid_count, Len(results)) ELSE 0,
          ai_detection_rate |->
              IF Len(results) > 0 THEN RoundedPercent(ai_detected_count, Len(results))
              ELSE 0,
          processed_in_batches |-> Len(cleaned) >= MinBatchSize,
          batch_size_used |->
              IF Len(cleaned) >= MinBatchSize THEN PyInt(requested) ELSE NotApplicable ]

(***************************************************************************)
(* The requests: no list, something that is not a list, and the first n    *)
(* addresses as they are, padded with whitespace, or among items that the  *)
(* cleaning drops.                                                         *)
(***************************************************************************)
RequestShapes == {"plain", "padded", "mixed"}

RequestItems(n, shape) ==
    CASE shape = "plain" -> [i \in 1..n |-> Str(AddressAt(i))]
      [] shape = "padded" ->
             [i \in 1..n |-> Str(<<" ">> \o AddressAt(i) \o <<" ", "\n">>)]
      [] OTHER -> << Str(<<" ", "\t">>), PyInt(7), PyNone >>
                  \o [i \in 1..n |-> Str(AddressAt(i))]
                  \o << Str(<<>>) >>

MaxRequest == 31

Requests ==
    { Absent, Str(AddressAt(1)) }
    \cup { PyList(RequestItems(n, shape)) : n \in 0..MaxRequest, shape \in RequestShapes }

\* detect_batch_ai_patterns on the first n addresses; computed once
BatchAnalyses ==
    <<>> \o [n \in 1..MaxRequest |-> detect_batch_ai_patterns(AddressList(n))]

InitEndpoint ==
    /\ emails \in Requests
    /\ batch_size_arg \in BatchSizeArgs
    /\ imported \in BOOLEAN
    /\ verdicts \in DelegateAnswers
    /\ imported \/ \A k \in AddressKinds : verdicts[k] = "error"
    /\ email = PyNone
    /\ verdict = "none"
    /\ entry = "none"
    /\ flag = TRUE
    /\ pc = "idle"
    /\ exception = "none"
    /\ calls = <<>>
    /\ steps = <<>>
    /\ outcome = "pending"
    /\ result = NoResult
    /\ batch_size = 0
    /\ index = 0
    /\ all_results = <<>>
    /\ cleaned_emails = <<>>
    /\ single_results = <<>>

\* the request is read, checked and cleaned (lines 424-445)
EndpointCall ==
    /\ pc = "idle"
    /\ entry' = "app.validate_batch_endpoint"
    /\ CASE emails = Absent ->
                /\ Return(ErrorResponse(400, "Emails list is required"))
                /\ UNCHANGED cleaned_emails
         [] ~IsList(emails) ->
                /\ Return(ErrorResponse(400, "Emails must be a list"))
                /\ UNCHANGED cleaned_emails
         [] Len(Items(emails)) = 0 ->
                /\ Return(ErrorResponse(400, "At least one email is required"))
                /\ UNCHANGED cleaned_emails
         [] OTHER ->
                /\ cleaned_emails' = CleanedEmails(Items(emails))
                /\ IF Len(cleaned_emails') = 0
                   THEN Return(ErrorResponse(400, "No valid emails found"))
                   ELSE /\ pc' = "endpoint_validate"
                        /\ UNCHANGED << exception, outcome, result >>
    /\ UNCHANGED << email, flag, imported, verdict, calls, steps, emails,
                    batch_size_arg, batch_size, index, all_results, verdicts,
                    single_results >>

\* the validation of lines 448-451 is entered: what validate_single_email
\* returns or raises on each cleaned address, whichever path calls it
EndpointValidate ==
    /\ pc = "endpoint_validate"
    /\ single_results' = AppOutcomesOf(cleaned_emails)
    /\ pc' = "endpoint_results"
    /\ UNCHANGED << entry, email, flag, imported, verdict, exception, calls,
                    steps, outcome, result, emails, batch_size_arg, batch_size,
                    index, all_results, verdicts, cleaned_emails >>

\* results: through validate_email_batches when the cleaned addresses are
\* 30 or more, directly otherwise; an exception ends in the 500 response of
\* line 477
EndpointResults ==
    /\ pc = "endpoint_results"
    /\ LET chunked == Len(cleaned_emails) >= MinBatchSize
           run == IF chunked
                  THEN validate_email_batches(single_results, batch_size_arg)
                  ELSE ValidateList(single_results)
       IN  /\ batch_size' = IF chunked THEN EffectiveBatchSize(batch_size_arg)
                            ELSE batch_size
           /\ calls' = calls \o DelegateCalls("app.validate_email_advanced",
                                              Passed(FALSE),
                                              IF imported THEN Len(cleaned_emails) ELSE 0)
           /\ IF run.outcome = "raised"
              THEN /\ Return(ErrorResponse(500, <<"Server error", run.value>>))
                   /\ UNCHANGED all_results
              ELSE /\ all_results' = run.value
                   /\ pc' = "endpoint_summary"
                   /\ UNCHANGED << exception, outcome, result >>
    /\ UNCHANGED << entry, email, flag, imported, verdict, steps, emails,
                    batch_size_arg, index, verdicts, cleaned_emails,
                    single_results >>

\* the batch analysis, the summary and the response (lines 454-474)
EndpointRespond ==
    /\ pc = "endpoint_summary"
    /\ Return(JsonResponse(200,
           [ results |-> all_results,
             summary |-> BatchSummary(all_results, cleaned_emails, batch_size_arg),
             ai_analysis |-> BatchAnalyses[Len(cleaned_emails)] ]))
    /\ UNCHANGED << entry, email, flag, imported, verdict, calls, steps >>
    /\ UNCHANGED batchVars

NextEndpoint ==
    \/ EndpointCall
    \/ EndpointValidate
    \/ EndpointResults
    \/ EndpointRespond

SpecEndpoint == InitEndpoint /\ [][NextEndpoint]_vars

EndpointDone == entry = "app.validate_batch_endpoint" /\ pc = "done"

\* the response is the successful one
Succeeded == EndpointDone /\ result.status = 200

\* the addresses of the state's list conform to what the tables are built on
CleanedArePrefix == cleaned_emails = AddressList(Len(cleaned_emails))


\* the items of the request that the cleaning keeps: strings with a
\* character that is not whitespace
KeptItems ==
    {i \in 1..Len(Items(emails)) :
        /\ IsStr(Items(emails)[i])
        /\ \E k \in 1..Len(Chars(Items(emails)[i])) :
              Chars(Items(emails)[i])[k] \notin Whitespace}

\* C12: an empty address list gives an empty record list and a summary with
\* total = 0, not an error, through POST /validate/batch
C12_EmptyListGivesEmptySummary ==
    (EndpointDone /\ emails = PyList(<<>>)) =>
        /\ result.status = 200
        /\ result.body.results = <<>>
        /\ result.body.summary.total = 0

\* C13: in every successful batch response, chunked or direct, summary.total
\* is the number of records returned and the number of cleaned addresses,
\* valid + invalid = total, valid is the number of records with is_valid
\* true, and success_rate is valid/total*100 rounded to two decimals.
C13_SummaryCounts ==
    Succeeded =>
        LET records == result.body.results
            summary == result.body.summary
        IN  /\ summary.total = Len(records)
            /\ summary.total = Cardinality(KeptItems)
            /\ summary.valid + summary.invalid = summary.total
            /\ summary.valid =
                  Cardinality({i \in 1..Len(records) : records[i].is_valid = TRUE})
            /\ 2 * (summary.success_rate * summary.total - 10000 * summary.valid)
                  <= summary.total
            /\ 2 * (10000 * summary.valid - summary.success_rate * summary.total)
                  <= summary.total

\* C13 witness: a chunked response on a request with items the cleaning
\* dropped, with valid and invalid records and a rate that needed rounding
C13_Witness ==
    /\ Succeeded
    /\ result.body.summary.processed_in_batches
    /\ Len(Items(emails)) > result.body.summary.total
    /\ result.body.summary.valid > 0
    /\ result.body.summary.invalid > 0
    /\ (10000 * result.body.summary.valid) % result.body.summary.total # 0

\* C14: batch_size_used is the batch size actually used to partition the
\* list, max(batch_size, 30), when 30 or more cleaned addresses were
\* chunked, and 'N/A' otherwise.
C14_BatchSizeUsedIsEffective ==
    Succeeded =>
        result.body.summary.batch_size_used =
            (IF Len(cleaned_emails) >= 30
             THEN PyInt(IF batch_size_arg > 30 THEN batch_size_arg ELSE 30)
             ELSE NotApplicable)

AiFields == {"ai_generated", "ai_likelihood", "suspicion_score", "detected_patterns"}

\* C19: a record carries the AI assessment fields exactly when is_valid is
\* true, so in every batch summary ai_detected <= valid <= total and an
\* invalid address is never counted as AI-detected.
C19_OnlyValidAddressesScored ==
    Succeeded =>
        LET records == result.body.results
            summary == result.body.summary
        IN  /\ \A i \in 1..Len(records) :
                  /\ records[i].is_valid => AiFields \subseteq DOMAIN records[i]
                  /\ ~records[i].is_valid => AiFields \cap DOMAIN records[i] = {}
            /\ summary.ai_detected <= summary.valid
            /\ summary.valid <= summary.total
            /\ summary.ai_detected =
                  Cardinality({i \in 1..Len(records) :
                                  /\ records[i].is_valid
                                  /\ records[i].ai_generated})

\* C19 witness: a response with a rejected address whose text the scorer
\* would flag, next to accepted ones, flagged and not
C19_Witness ==
    /\ Succeeded
    /\ result.body.summary.ai_detected > 0
    /\ result.body.summary.ai_detected < result.body.summary.valid
    /\ \E i \in 1..Len(result.body.results) :
          /\ ~result.body.results[i].is_valid
          /\ detect_ai_patterns(cleaned_emails[i]).ai_generated


(***************************************************************************)
(* The fallback chain of validate_single_email                             *)
(***************************************************************************)
\* the positions of a step in the run
StepsOf(step) == { i \in DOMAIN steps : steps[i] = step }

\* the delegate gave a verdict on the address: it accepted it, or raised its
\* typed error
DelegateGaveVerdict == imported /\ verdict \in {"valid", "not_valid"}

\* the delegate attempt ended without a verdict: the package is unavailable, or
\* the call failed with an error that is not the typed one
DelegateAttemptFailed == ~imported \/ verdict = "error"

\* C15: validate_single_email is advanced-then-simple, never the reverse: the
\* delegate is attempted first; validate_email_simple runs only after the
\* delegate attempt ended as unavailable or with an unexpected error; once the
\* delegate gave a verdict (valid, or the typed error) that verdict is the
\* result and validate_email_simple is never invoked; the delegate is never
\* invoked after validate_email_simple.
C15_AdvancedThenSimple ==
    entry = "app.validate_single_email" =>
        /\ Cardinality(StepsOf("delegate")) <= 1
        /\ Cardinality(StepsOf("simple")) <= 1
        /\ \A i \in StepsOf("simple") :
              /\ DelegateAttemptFailed
              /\ imported => (i > 1 /\ steps[1] = "delegate")
              /\ \A j \in StepsOf("delegate") : j < i
        /\ (pc = "simple") => (DelegateAttemptFailed /\ ~Ran("simple"))
        /\ (imported /\ pc \notin {"idle", "adv_import", "adv_call"}) =>
              steps[1] = "delegate"
        /\ (DelegateGaveVerdict /\ pc = "done") =>
              /\ ~Ran("simple")
              /\ outcome = "returned"
              /\ result = IF verdict = "valid" THEN AdvancedValidRecord(email)
                          ELSE AdvancedInvalidRecord(email)

\* the delegate failed with an unexpected error and the rule-based validator
\* produced the result
C15_Witness ==
    /\ AppDone
    /\ steps = <<"delegate", "simple">>
    /\ outcome = "returned"
    /\ result = validate_email_simple(email)


(***************************************************************************)
(* The rules of validate_email_simple                                      *)
(***************************************************************************)
\* validate_email_simple produced the result, called directly or as fallback
SimpleDone == pc = "done" /\ outcome = "returned" /\ Ran("simple")

\* the text the rules after the first one see: a string, not empty once
\* stripped
Stripped == Strip(Chars(email))
RulesApply == IsStr(email) /\ Len(Stripped) > 0

ErrorIs(message) == result.error = Str(message)

\* C16: validate_email_simple applies format pattern, length limits, local-part
\* dots in that order and reports the first rule that fails: an address failing
\* the anchored pattern (any address without '@' included) yields 'Invalid
\* email format'; one that passes the pattern but has local > 64 or domain > 253
\* characters yields 'Email too long' even when its local part has a leading,
\* trailing or doubled dot; 'Invalid local part format' is reported only when
\* the pattern and length rules pass.
C16_RulesInOrder ==
    (SimpleDone /\ RulesApply) =>
        /\ ~HasAtSign(Stripped) => ~FormatMatches(Stripped)
        /\ ~FormatMatches(Stripped) =>
              (~result.is_valid /\ ErrorIs("Invalid email format"))
        /\ (FormatMatches(Stripped)
              /\ TooLong(SplitFirst(Stripped), SplitSecond(Stripped))) =>
              (~result.is_valid /\ ErrorIs("Email too long"))
        /\ ErrorIs("Invalid local part format") <=>
              /\ FormatMatches(Stripped)
              /\ ~TooLong(SplitFirst(Stripped), SplitSecond(Stripped))
              /\ BadLocalDots(SplitFirst(Stripped))
        /\ ErrorIs("Invalid local part format") => ~result.is_valid

\* an over-long local part that also starts with a dot is reported as too long
C16_Witness ==
    /\ SimpleDone
    /\ RulesApply
    /\ FormatMatches(Stripped)
    /\ Len(SplitFirst(Stripped)) > MaxLocalLen
    /\ BadLocalDots(SplitFirst(Stripped))
    /\ ErrorIs("Email too long")


\* C17: rule 1 of validate_email_simple: a non-string input yields an
\* is_valid = false record with error 'Email must be a string'; a string that is
\* empty after trimming surrounding whitespace (the empty string as well as a
\* whitespace-only string) yields an is_valid = false record with error 'Email
\* cannot be empty'; neither case raises.
C17_EmptyOrNotAString ==
    (pc = "done" /\ Ran("simple") /\ ~RulesApply) =>
        /\ outcome = "returned"
        /\ ~result.is_valid
        /\ ~IsStr(email) => ErrorIs("Email must be a string")
        /\ IsStr(email) => ErrorIs("Email cannot be empty")


(***************************************************************************)
(* The entries of detected_patterns                                        *)
(***************************************************************************)
\* the place of an entry's family in the fixed order
FamilyRank(e) ==
    CASE e[1] = "Sequential pattern" -> 1
      [] e[1] = "Templated pattern" -> 2
      [] e[1] = "AI common name" -> 3
      [] e[1] = "Suspicious domain" -> 4
      [] e[1] = "Known fake domain" -> 5
      [] e[1] = "Overly perfect pattern" -> 6
      [] OTHER -> 0

\* the place in its table of the rule an entry names; the two single checks
\* have no table
RuleRank(e) == IF FamilyRank(e) \in 1..4 THEN e[2] ELSE 0

EntryRank(e) == << FamilyRank(e), RuleRank(e) >>

RankBefore(a, b) == a[1] < b[1] \/ (a[1] = b[1] /\ a[2] < b[2])

\* the rules that fire on the text s, as <<family, rule>> places
FiredPlaces(s) ==
    { <<1, i>> : i \in MatchingSequential(s) }
    \cup { <<2, i>> : i \in MatchingTemplated(s) }
    \cup { <<3, i>> : i \in MatchingCommonName(s) }
    \cup { <<4, i>> : i \in MatchingSuspiciousDomain(s) }
    \cup (IF DomainPartOf(Lower(s)) \in FAKE_DOMAINS THEN { <<5, 0>> } ELSE {})
    \cup (IF OverlyPerfect(Lower(s)) THEN { <<6, 0>> } ELSE {})

\* C18: detected_patterns holds exactly one entry per rule that fired and no
\* other entry, in a fixed order: sequential-username entries, then templated,
\* AI-common-name, suspicious-domain, known-fake-domain, overly-perfect, and
\* within a family in the order of the rule table; the list is empty exactly
\* when suspicion_score is 0.
C18_DetectedPatternsInOrder ==
    ScoreDone =>
        LET p == result.detected_patterns
            s == Chars(email)
        IN  /\ { EntryRank(p[k]) : k \in DOMAIN p } = FiredPlaces(s)
            /\ Len(p) = Cardinality(FiredPlaces(s))
            /\ \A k \in 1..(Len(p) - 1) :
                  RankBefore(EntryRank(p[k]), EntryRank(p[k + 1]))
            /\ \A k \in DOMAIN p :
                  FamilyRank(p[k]) = 5 => p[k][2] = DomainPartOf(Lower(s))
            /\ (Len(p) = 0) <=> (result.suspicion_score = 0)

\* an address on which several families fire, one of them with two rules
C18_Witness ==
    /\ ScoreDone
    /\ LET p == result.detected_patterns
       IN  /\ Cardinality({ FamilyRank(p[k]) : k \in DOMAIN p }) >= 3
           /\ \E k \in 1..(Len(p) - 1) : FamilyRank(p[k]) = FamilyRank(p[k + 1])
           /\ \E k, l \in DOMAIN p : FamilyRank(p[k]) = 3 /\ FamilyRank(p[l]) = 4

=============================================================================
